---- MODULE Spec2Model ----
(***************************************************************************)
(* A model of the Pixoo session object of src/pixoo/__init__.py: the RGB   *)
(* frame buffer, the drawing primitives that write through draw_pixel, the *)
(* frame counter with its refresh policy, and the commands the session     *)
(* issues on the device command channel or hands to the simulator.         *)
(*                                                                         *)
(* Every public method is one atomic action: the class is synchronous and  *)
(* single-threaded.  send_command (pixoo.api) and Simulator.display are    *)
(* recorded as the calls the session makes, in order, with their           *)
(* arguments; a call that raises ends the session and is not modelled.     *)
(* The debug flag only prints and is left out, as are draw_image (PIL),    *)
(* the *_rgb wrappers, set_timer and the tools of src/pixoo/tools.py.      *)
(*                                                                         *)
(* Python's round() works on floats; round below is exact.  The two agree  *)
(* on every line explored here and on every axis-aligned line.             *)
(***************************************************************************)
EXTENDS Integers, Sequences, FiniteSets, TLC

VARIABLES
  size,                              \* self.size
  simulated,                         \* self.simulated
  refresh_connection_automatically,  \* self.refresh_connection_automatically
  buffer,                            \* self.__buffer: flat list of bytes
  counter,                           \* self.__counter
  buffers_send,                      \* self.__buffers_send
  channel,                           \* commands given to send_command, in order
  display,                           \* calls of Simulator.display, in order
  loaded,                            \* the counter __load_counter stored
  last,                              \* the most recent call and its arguments
  calls                              \* number of method calls made so far

vars == <<size, simulated, refresh_connection_automatically, buffer, counter,
          buffers_send, channel, display, loaded, last, calls>>

\* What no method changes once __init__ has returned.
session == <<size, simulated, refresh_connection_automatically, loaded>>
transmission == <<counter, buffers_send, channel, display>>

----------------------------------------------------------------------------
(* Bounds of the exploration. *)

MaxCalls == 2

MaxPushes == 33

----------------------------------------------------------------------------
(* Module-level helpers of src/pixoo/__init__.py. *)

refresh_counter_limit == 32

Sizes == {16, 32, 64}

BLACK == <<0, 0, 0>>

WHITE == <<255, 255, 255>>

\* A color with components outside [0, 255].
TRICKY == <<-5, 300, 128>>

\* A Python list built by a comprehension or by repeated extend.
list(f) == SubSeq(f, 1, Len(f))

\* clamp(value, minimum, maximum)
clamp(value, minimum, maximum) ==
  IF value > maximum THEN maximum
  ELSE IF value < minimum THEN minimum
  ELSE value

clamp_color(rgb) == <<clamp(rgb[1], 0, 255), clamp(rgb[2], 0, 255), clamp(rgb[3], 0, 255)>>

abs(v) == IF v < 0 THEN -v ELSE v

max(a, b) == IF a >= b THEN a ELSE b

minimum_amount_of_steps(xy1, xy2) ==
  max(abs(xy1[1] - xy2[1]), abs(xy1[2] - xy2[2]))

\* A rational num/den, den > 0: the value of step / amount_of_steps and of
\* the products and sums lerp forms from it.
Rat(n, d) == [num |-> n, den |-> d]

\* lerp(start, end, interpolant) = start + interpolant * (end - start)
lerp(start, end, interpolant) ==
  Rat(start * interpolant.den + interpolant.num * (end - start), interpolant.den)

lerp_location(xy1, xy2, interpolant) ==
  <<lerp(xy1[1], xy2[1], interpolant), lerp(xy1[2], xy2[2], interpolant)>>

\* Python's round(): to the nearest integer, a tie to the even neighbour.
round(q) ==
  LET f == q.num \div q.den
      r == q.num % q.den
  IN IF 2 * r < q.den THEN f
     ELSE IF 2 * r > q.den THEN f + 1
     ELSE IF f % 2 = 0 THEN f ELSE f + 1

round_location(xy) == <<round(xy[1]), round(xy[2])>>

----------------------------------------------------------------------------
(* Frame buffer. *)

pixel_count == size * size

\* fill: the buffer is rebuilt from pixel_count copies of the clamped color.
fill(rgb) ==
  LET c == clamp_color(rgb)
  IN list([i \in 1..(3 * pixel_count) |-> c[((i - 1) % 3) + 1]])

OffIndex(index) == index < 0 \/ index >= pixel_count

\* Mutant of draw_pixel_at_index: the color is stored as it was given.
draw_pixel_at_index_unclamped(buf, index, rgb) ==
  IF OffIndex(index) THEN buf
  ELSE LET i == index * 3
       IN [buf EXCEPT ![i + 1] = rgb[1], ![i + 2] = rgb[2], ![i + 3] = rgb[3]]

\* draw_pixel_at_index on buffer buf; Python's buffer[k] is buf[k + 1].
draw_pixel_at_index(buf, index, rgb) ==
  IF OffIndex(index) THEN buf
  ELSE LET c == clamp_color(rgb)
           i == index * 3
       IN [buf EXCEPT ![i + 1] = c[1], ![i + 2] = c[2], ![i + 3] = c[3]]

\* Mutant of OffScreen: only the upper limits are tested.
OffScreen_upper(xy) == xy[1] >= size \/ xy[2] >= size

\* The test draw_pixel makes before it computes an index.
OffScreen(xy) == xy[1] < 0 \/ xy[1] >= size \/ xy[2] < 0 \/ xy[2] >= size

\* Mutant of draw_pixel: the index is computed column-major.
draw_pixel_transposed(buf, xy, rgb) ==
  IF OffScreen(xy) THEN buf
  ELSE draw_pixel_at_index(buf, xy[2] + (xy[1] * size), rgb)

draw_pixel(buf, xy, rgb) ==
  IF OffScreen(xy) THEN buf
  ELSE draw_pixel_at_index(buf, xy[1] + (xy[2] * size), rgb)

----------------------------------------------------------------------------
(* Construction. *)

Command(name) == [command |-> name]

\* Mutant of reset_counter: the command is sent in every mode.
reset_counter_unguarded(ch) == Append(ch, Command("Draw/ResetHttpGifId"))

\* __reset_counter: the command is not sent when simulated.
reset_counter(ch) ==
  IF simulated THEN ch ELSE Append(ch, Command("Draw/ResetHttpGifId"))

\* __init__: fill(), __load_counter(), the reset "if needed"; reported is
\* the PicId the device answers to Draw/GetHttpGifId.
Construct(s, sim, auto, reported) ==
  /\ size = s
  /\ simulated = sim
  /\ refresh_connection_automatically = auto
  /\ buffer = fill(BLACK)
  /\ loaded = IF sim THEN 1 ELSE reported
  /\ counter = loaded
  /\ buffers_send = 0
  /\ LET asked == IF sim THEN <<>> ELSE <<Command("Draw/GetHttpGifId")>>
     IN channel = IF auto /\ counter > refresh_counter_limit
                  THEN reset_counter(asked) ELSE asked
  /\ display = <<>>
  /\ last = [op |-> "__init__"]
  /\ calls = 0

\* A drawing session: every display size, frames going to the simulator.
Init == \E s \in Sizes : Construct(s, TRUE, TRUE, 1)

----------------------------------------------------------------------------
(* Drawing calls. *)

\* Draws every pixel of a set in one color; the writes are of one color, so
\* the order in which the set is iterated does not show in the buffer.
RECURSIVE draw_pixels(_, _, _)
draw_pixels(buf, pixels, rgb) ==
  IF pixels = {} THEN buf
  ELSE LET p == CHOOSE q \in pixels : TRUE
       IN draw_pixels(draw_pixel(buf, p, rgb), pixels \ {p}, rgb)

\* range(n) of Python
range(n) == 0..(n - 1)

\* The set `line` that draw_line collects before it draws.
line_pixels(start_xy, stop_xy) ==
  LET amount_of_steps == minimum_amount_of_steps(start_xy, stop_xy)
      interpolant(step) == IF amount_of_steps = 0 THEN Rat(0, 1)
                           ELSE Rat(step, amount_of_steps)
  IN {round_location(lerp_location(start_xy, stop_xy, interpolant(step))) :
        step \in range(amount_of_steps)}

draw_line(buf, start_xy, stop_xy, rgb) ==
  draw_pixels(buf, line_pixels(start_xy, stop_xy), rgb)

\* for y in range(top, bottom + 1): for x in range(left, right + 1)
rectangle_pixels(top_left_xy, bottom_right_xy) ==
  {<<x, y>> : x \in top_left_xy[1]..bottom_right_xy[1],
              y \in top_left_xy[2]..bottom_right_xy[2]}

draw_filled_rectangle(buf, top_left_xy, bottom_right_xy, rgb) ==
  draw_pixels(buf, rectangle_pixels(top_left_xy, bottom_right_xy), rgb)

\* retrieve_glyph (pixoo._font): a 3-wide bitmap of 0/1 cells, row by row,
\* or nothing for a character the font does not hold.  None is <<>> and a
\* glyph m is <<m>>.
None == <<>>

FONT ==
  [c \in {"T", "."} |->
     IF c = "T" THEN <<1, 1, 1,  0, 1, 0,  0, 1, 0,  0, 1, 0,  0, 1, 0>>
     ELSE <<0, 0, 0,  0, 0, 0,  0, 0, 0,  0, 0, 0,  0, 1, 0>>]

retrieve_glyph(character) ==
  IF character \in DOMAIN FONT THEN <<FONT[character]>> ELSE None

\* The pixels draw_character writes: bit at flattened index i - 1 is at
\* local (index % 3, int(index / 3)).
glyph_pixels(matrix, xy) ==
  {<<xy[1] + ((i - 1) % 3), xy[2] + ((i - 1) \div 3)>> :
     i \in {j \in 1..Len(matrix) : matrix[j] = 1}}

draw_character(buf, character, xy, rgb) ==
  LET matrix == retrieve_glyph(character)
  IN IF matrix # None THEN draw_pixels(buf, glyph_pixels(matrix[1], xy), rgb)
     ELSE buf

\* draw_text: character number index (from 0) is drawn at x + index * 4.
RECURSIVE draw_text_from(_, _, _, _, _)
draw_text_from(buf, text, k, xy, rgb) ==
  IF k > Len(text) THEN buf
  ELSE draw_text_from(draw_character(buf, text[k], <<(k - 1) * 4 + xy[1], xy[2]>>, rgb),
                      text, k + 1, xy, rgb)

draw_text(buf, text, xy, rgb) == draw_text_from(buf, text, 1, xy, rgb)

----------------------------------------------------------------------------
(* Transmission. *)

\* Every call is recorded as the most recent one.
Called(rec) == last' = rec /\ calls' = calls + 1

\* base64.b64encode of a list of bytes whose length is a multiple of 3 (the
\* buffer holds 3 bytes per pixel, so there is no padding): character j of
\* the text, as its index 0..63 in the base64 alphabet.
b64char(bytes, j) ==
  LET g == 3 * ((j - 1) \div 4)
      k == (j - 1) % 4
  IN IF k = 0 THEN bytes[g + 1] \div 4
     ELSE IF k = 1 THEN (bytes[g + 1] % 4) * 16 + (bytes[g + 2] \div 16)
     ELSE IF k = 2 THEN (bytes[g + 2] % 16) * 4 + (bytes[g + 3] \div 64)
     ELSE bytes[g + 3] % 64

b64encode(bytes) ==
  list([j \in 1..(4 * (Len(bytes) \div 3)) |-> b64char(bytes, j)])

SendHttpGif(buf, id) ==
  [command |-> "Draw/SendHttpGif", pic_num |-> 1, pic_width |-> size,
   pic_offset |-> 0, pic_id |-> id, pic_speed |-> 1000,
   pic_data |-> b64encode(buf)]

\* Mutant of Refreshing: the limit itself is let through, as in __init__.
Refreshing_above(c) == refresh_connection_automatically /\ c > refresh_counter_limit

\* Mutant of Refreshing: the refresh comes one frame early.
Refreshing_early(c) == refresh_connection_automatically /\ c + 1 >= refresh_counter_limit

\* The refresh check of __send_buffer on the incremented counter c.
Refreshing(c) == refresh_connection_automatically /\ c >= refresh_counter_limit

next_counter(c) == IF Refreshing(c + 1) THEN 1 ELSE c + 1

\* __send_buffer, called by push.
send_buffer ==
  LET reset == IF Refreshing(counter + 1) THEN reset_counter(channel) ELSE channel
  IN /\ counter' = next_counter(counter)
     /\ IF simulated
        THEN /\ display' = Append(display, [buffer |-> buffer, counter |-> counter'])
             /\ channel' = reset
        ELSE /\ channel' = Append(reset, SendHttpGif(buffer, counter'))
             /\ display' = display
     /\ buffers_send' = buffers_send + 1
     /\ Called([op |-> "push"])
     /\ UNCHANGED <<session, buffer>>

----------------------------------------------------------------------------
(* The calls of a drawing session, with the arguments explored. *)

Drawn(buf, rec) ==
  /\ buffer' = buf
  /\ Called(rec)
  /\ UNCHANGED <<session, transmission>>

PixelArgs ==
  {<<xy, TRICKY>> : xy \in {<<0, 0>>, <<1, 2>>, <<size - 1, size - 1>>,
                             <<-1, 1>>, <<size, 1>>, <<0, -1>>, <<2, size>>}}
    \cup {<<<<1, 2>>, WHITE>>}

IndexArgs ==
  {<<i, TRICKY>> : i \in {-1, 0, size + 1, pixel_count - 1, pixel_count}}

LineArgs ==
  {<<<<1, 2>>, <<1, 2>>>>, <<<<0, 0>>, <<3, 0>>>>, <<<<3, 1>>, <<0, 1>>>>,
   <<<<2, 0>>, <<2, 3>>>>, <<<<0, 0>>, <<4, 2>>>>,
   <<<<size - 2, 0>>, <<size + 1, 0>>>>}

RectangleArgs ==
  {<<<<0, 0>>, <<1, 1>>>>, <<<<2, 2>>, <<1, 1>>>>,
   <<<<size - 1, size - 1>>, <<size, size>>>>}

CharacterArgs == {<<"T", <<0, 0>>>>, <<"T", <<size - 2, size - 3>>>>, <<"~", <<0, 0>>>>}

TextArgs == {<<<<"T", "~", ".">>, <<1, 1>>>>, <<<<".", "T">>, <<size - 5, -1>>>>}

Fill ==
  /\ calls < MaxCalls
  /\ \E rgb \in {TRICKY, WHITE} :
       Drawn(fill(rgb), [op |-> "fill", rgb |-> rgb])

\* clear(rgb) is fill(rgb); its default color is black.
Clear ==
  /\ calls < MaxCalls
  /\ Drawn(fill(BLACK), [op |-> "clear", rgb |-> BLACK])

DrawPixel ==
  /\ calls < MaxCalls
  /\ \E a \in PixelArgs :
       Drawn(draw_pixel(buffer, a[1], a[2]),
             [op |-> "draw_pixel", xy |-> a[1], rgb |-> a[2]])

DrawPixelAtIndex ==
  /\ calls < MaxCalls
  /\ \E a \in IndexArgs :
       Drawn(draw_pixel_at_index(buffer, a[1], a[2]),
             [op |-> "draw_pixel_at_index", index |-> a[1], rgb |-> a[2]])

DrawLine ==
  /\ calls < MaxCalls
  /\ \E a \in LineArgs :
       Drawn(draw_line(buffer, a[1], a[2], WHITE),
             [op |-> "draw_line", start_xy |-> a[1], stop_xy |-> a[2], rgb |-> WHITE])

DrawFilledRectangle ==
  /\ calls < MaxCalls
  /\ \E a \in RectangleArgs :
       Drawn(draw_filled_rectangle(buffer, a[1], a[2], TRICKY),
             [op |-> "draw_filled_rectangle", top_left_xy |-> a[1],
              bottom_right_xy |-> a[2], rgb |-> TRICKY])

DrawCharacter ==
  /\ calls < MaxCalls
  /\ \E a \in CharacterArgs :
       Drawn(draw_character(buffer, a[1], a[2], WHITE),
             [op |-> "draw_character", character |-> a[1], xy |-> a[2], rgb |-> WHITE])

DrawText ==
  /\ calls < MaxCalls
  /\ \E a \in TextArgs :
       Drawn(draw_text(buffer, a[1], a[2], TRICKY),
             [op |-> "draw_text", text |-> a[1], xy |-> a[2], rgb |-> TRICKY])

Push ==
  /\ calls < MaxCalls
  /\ send_buffer

Next ==
  \/ Fill
  \/ Clear
  \/ DrawPixel
  \/ DrawPixelAtIndex
  \/ DrawLine
  \/ DrawFilledRectangle
  \/ DrawCharacter
  \/ DrawText
  \/ Push

Spec == Init /\ [][Next]_vars

----------------------------------------------------------------------------
(* Hardware calls. *)

HexDigit(d) ==
  <<"0", "1", "2", "3", "4", "5", "6", "7",
    "8", "9", "A", "B", "C", "D", "E", "F">>[d + 1]

RECURSIVE hex(_)
hex(n) == IF n < 16 THEN <<HexDigit(n)>> ELSE Append(hex(n \div 16), HexDigit(n % 16))

\* The format spec 0>2X: upper-case hexadecimal, a minus sign for a negative
\* value, padded on the left with "0" to two characters.
format_02X(v) ==
  LET s == IF v < 0 THEN <<"-">> \o hex(-v) ELSE hex(v)
  IN IF Len(s) < 2 THEN <<"0">> \o s ELSE s

rgb_to_hex_color(rgb) ==
  <<"#">> \o format_02X(rgb[1]) \o format_02X(rgb[2]) \o format_02X(rgb[3])

\* send_command(command=..., **kwargs) with the session left as it is.
Sent(ch, rec) ==
  /\ channel' = ch
  /\ Called(rec)
  /\ UNCHANGED <<session, buffer, counter, buffers_send, display>>

send_text(ch, text, xy, color, identifier, font, width, movement_speed, direction) ==
  IF simulated THEN ch
  ELSE Append(ch, [command |-> "Draw/SendText", text_id |-> clamp(identifier, 0, 19),
                   x |-> xy[1], y |-> xy[2], dir |-> direction, font |-> font,
                   text_width |-> width, speed |-> movement_speed,
                   text_string |-> text, color |-> rgb_to_hex_color(color),
                   align |-> 1])

set_brightness(ch, brightness) ==
  IF simulated THEN ch
  ELSE Append(ch, [command |-> "Channel/SetBrightness",
                   brightness |-> clamp(brightness, 0, 100)])

set_channel(ch, chan) ==
  IF simulated THEN ch
  ELSE Append(ch, [command |-> "Channel/SetIndex", select_index |-> chan])

set_clock(ch, clock_id) ==
  IF simulated THEN ch
  ELSE Append(ch, [command |-> "Channel/SetClockSelectId", clock_id |-> clock_id])

set_custom_page(ch, index) ==
  Append(ch, [command |-> "Channel/SetCustomPageIndex", custom_page_index |-> index])

set_custom_channel(ch, index) == set_channel(set_custom_page(ch, index), 3)

set_face(ch, face_id) == set_clock(ch, face_id)

set_screen(ch, on) ==
  IF simulated THEN ch
  ELSE Append(ch, [command |-> "Channel/OnOffScreen", on_off |-> IF on THEN 1 ELSE 0])

set_screen_off(ch) == set_screen(ch, FALSE)

set_screen_on(ch) == set_screen(ch, TRUE)

set_visualizer(ch, equalizer_position) ==
  IF simulated THEN ch
  ELSE Append(ch, [command |-> "Channel/SetEqPosition", eq_position |-> equalizer_position])

SendText ==
  /\ calls < MaxCalls
  /\ \E identifier \in {1, 25}, color \in {TRICKY, WHITE} :
       Sent(send_text(channel, "hi", <<0, 0>>, color, identifier, 2, 64, 0, 0),
            [op |-> "send_text", identifier |-> identifier, color |-> color])

SetBrightness ==
  /\ calls < MaxCalls
  /\ \E brightness \in {-5, 50, 150} :
       Sent(set_brightness(channel, brightness),
            [op |-> "set_brightness", brightness |-> brightness])

SetChannel ==
  /\ calls < MaxCalls
  /\ \E chan \in {0, 2} :
       Sent(set_channel(channel, chan), [op |-> "set_channel", channel |-> chan])

SetClock ==
  /\ calls < MaxCalls
  /\ Sent(set_clock(channel, 7), [op |-> "set_clock", clock_id |-> 7])

SetCustomChannel ==
  /\ calls < MaxCalls
  /\ Sent(set_custom_channel(channel, 1), [op |-> "set_custom_channel", index |-> 1])

SetCustomPage ==
  /\ calls < MaxCalls
  /\ Sent(set_custom_page(channel, 2), [op |-> "set_custom_page", index |-> 2])

SetFace ==
  /\ calls < MaxCalls
  /\ Sent(set_face(channel, 9), [op |-> "set_face", face_id |-> 9])

SetScreen ==
  /\ calls < MaxCalls
  /\ \E on \in BOOLEAN :
       Sent(set_screen(channel, on), [op |-> "set_screen", on |-> on])

SetScreenOff ==
  /\ calls < MaxCalls
  /\ Sent(set_screen_off(channel), [op |-> "set_screen_off"])

SetScreenOn ==
  /\ calls < MaxCalls
  /\ Sent(set_screen_on(channel), [op |-> "set_screen_on"])

SetVisualizer ==
  /\ calls < MaxCalls
  /\ Sent(set_visualizer(channel, 4), [op |-> "set_visualizer", equalizer_position |-> 4])

\* Sessions on a device and on the simulator, given hardware calls only.
InitHw == \E s \in Sizes, sim \in BOOLEAN : Construct(s, sim, TRUE, 5)

NextHw ==
  \/ SendText
  \/ SetBrightness
  \/ SetChannel
  \/ SetClock
  \/ SetCustomChannel
  \/ SetCustomPage
  \/ SetFace
  \/ SetScreen
  \/ SetScreenOff
  \/ SetScreenOn
  \/ SetVisualizer

SpecHw == InitHw /\ [][NextHw]_vars

----------------------------------------------------------------------------
(* Runs of pushes: every mode, and the counters a device may report. *)

ReportedIds == {0, 31, 32, 33}

InitPush ==
  \E s \in Sizes, sim \in BOOLEAN, auto \in BOOLEAN, reported \in ReportedIds :
    /\ sim => reported = 0
    /\ Construct(s, sim, auto, reported)

PushAgain ==
  /\ buffers_send < MaxPushes
  /\ send_buffer

NextPush == PushAgain

SpecPush == InitPush /\ [][NextPush]_vars

----------------------------------------------------------------------------
(* Vocabulary of the properties. *)

IsReset(cmd) == cmd.command = "Draw/ResetHttpGifId"

IsFrame(cmd) == cmd.command = "Draw/SendHttpGif"

\* How many remote counter resets the channel has carried.
Resets(ch) == Cardinality({i \in DOMAIN ch : IsReset(ch[i])})

Frames(ch) == Cardinality({i \in DOMAIN ch : IsFrame(ch[i])})

Auto == refresh_connection_automatically

\* The bytes a base64 text (alphabet indices, no padding) stands for.
b64byte(text, i) ==
  LET g == 4 * ((i - 1) \div 3)
      k == (i - 1) % 3
  IN IF k = 0 THEN text[g + 1] * 4 + (text[g + 2] \div 16)
     ELSE IF k = 1 THEN (text[g + 2] % 16) * 16 + (text[g + 3] \div 4)
     ELSE (text[g + 3] % 4) * 64 + text[g + 4]

b64decode(text) == list([i \in 1..(3 * (Len(text) \div 4)) |-> b64byte(text, i)])

\* A color component as the display stores it.
Stored(v) == IF v < 0 THEN 0 ELSE IF v > 255 THEN 255 ELSE v

OnDisplay(xy) == xy[1] \in 0..(size - 1) /\ xy[2] \in 0..(size - 1)

\* buf with the pixel at (x, y) set to the stored form of rgb.
WithPixel(buf, xy, rgb) ==
  LET o == (xy[1] + xy[2] * size) * 3
  IN [buf EXCEPT ![o + 1] = Stored(rgb[1]), ![o + 2] = Stored(rgb[2]),
                 ![o + 3] = Stored(rgb[3])]

\* The pixel (x, y) that byte i of the buffer belongs to.
PixelOf(i) == <<((i - 1) \div 3) % size, ((i - 1) \div 3) \div size>>

\* buf with exactly the pixels of a set in the stored form of rgb.
WithPixels(buf, pixels, rgb) ==
  list([i \in 1..Len(buf) |->
          IF PixelOf(i) \in pixels THEN Stored(rgb[((i - 1) % 3) + 1]) ELSE buf[i]])

----------------------------------------------------------------------------
(* C1, as stated: with auto refresh, a push whose incremented counter is   *)
(* at or above the threshold issues exactly one remote reset and sends     *)
(* the frame under id 1; every frame id sent is below the threshold.       *)
C1_OneRemoteResetOnEveryTrip ==
  [][(last'.op = "push" /\ Auto /\ counter + 1 >= refresh_counter_limit)
       => /\ counter' = 1
          /\ Resets(channel') = Resets(channel) + 1]_vars

(* C1, amended: with auto refresh, a push whose incremented counter is at  *)
(* or above the threshold sets the counter to 1 before the frame goes out, *)
(* so the frame carries id 1; on a device exactly one remote reset         *)
(* precedes that frame, in simulated mode nothing is sent on the channel;  *)
(* a push below the threshold issues no reset; every frame id sent is      *)
(* below the threshold.                                                    *)
C1_ResetBeforeFrame ==
  [][(last'.op = "push" /\ Auto)
       => /\ IF counter + 1 >= refresh_counter_limit
             THEN /\ counter' = 1
                  /\ IF simulated
                     THEN channel' = channel
                     ELSE /\ Len(channel') = Len(channel) + 2
                          /\ IsReset(channel'[Len(channel) + 1])
                          /\ IsFrame(channel'[Len(channel) + 2])
             ELSE /\ counter' = counter + 1
                  /\ Resets(channel') = Resets(channel)
          /\ IF simulated
             THEN /\ Len(display') = Len(display) + 1
                  /\ display'[Len(display')].counter = counter'
             ELSE /\ Frames(channel') = Frames(channel) + 1
                  /\ channel'[Len(channel')].pic_id = counter'
          /\ counter' < refresh_counter_limit]_vars

\* A push on a device has tripped the threshold: reset, then frame 1.
C1_Witness ==
  /\ last.op = "push" /\ Auto /\ ~simulated /\ counter = 1
  /\ Len(channel) >= 3
  /\ IsReset(channel[Len(channel) - 1])
  /\ IsFrame(channel[Len(channel)]) /\ channel[Len(channel)].pic_id = 1

(* C2, as stated: from a counter below the threshold, any number N of      *)
(* pushes leaves the counter at start + N and issues no remote reset.      *)
C2_AnyNumberOfPushes ==
  loaded < refresh_counter_limit
    => counter = loaded + buffers_send /\ Resets(channel) = 0

(* C2, amended: from a counter below the threshold, N pushes leave the     *)
(* counter at start + N and issue no remote reset as long as start + N is  *)
(* below the threshold, or for any N when auto refresh is off.             *)
C2_PushesBelowThreshold ==
  (loaded < refresh_counter_limit
     /\ (~Auto \/ loaded + buffers_send < refresh_counter_limit))
    => counter = loaded + buffers_send /\ Resets(channel) = 0

\* Pushes have brought the counter right up to the threshold.
C2_Witness ==
  /\ Auto /\ buffers_send > 1
  /\ loaded + buffers_send = refresh_counter_limit - 1
  /\ counter = refresh_counter_limit - 1

(* C3: every push dispatches exactly one frame, the whole buffer under the *)
(* current counter: in simulated mode one display(buffer, counter) and     *)
(* nothing on the device channel, not even the reset; on a device one      *)
(* Draw/SendHttpGif with pic_num 1, pic_width the side, pic_offset 0 and   *)
(* pic_id the counter, and nothing for the simulator.                      *)
C3_OneDispatchPerPush ==
  [][last'.op = "push"
       => IF simulated
          THEN /\ display' = Append(display, [buffer |-> buffer, counter |-> counter'])
               /\ Len(buffer) = 3 * size * size
               /\ channel' = channel
          ELSE /\ display' = display
               /\ Frames(channel') = Frames(channel) + 1
               /\ LET cmd == channel'[Len(channel')]
                  IN /\ IsFrame(cmd)
                     /\ cmd.pic_num = 1
                     /\ cmd.pic_width = size
                     /\ cmd.pic_offset = 0
                     /\ cmd.pic_id = counter'
                     /\ b64decode(cmd.pic_data) = buffer
                     /\ Len(buffer) = 3 * size * size]_vars

\* A simulated push has tripped the threshold and the channel is silent.
C3_Witness ==
  /\ last.op = "push" /\ simulated /\ Auto
  /\ buffers_send = refresh_counter_limit - 1
  /\ counter = 1
  /\ Len(display) = buffers_send
  /\ channel = <<>>

(* C4: in simulated mode the hardware-only calls (brightness, channel      *)
(* switching, text scroll, screen on/off) issue no command on the device   *)
(* channel.                                                                *)
HardwareOnly ==
  {"set_brightness", "set_channel", "set_clock", "set_face",
   "set_custom_channel", "set_visualizer", "send_text", "set_screen",
   "set_screen_on", "set_screen_off"}

C4_SimulatedHardwareCallsAreSilent ==
  [][(simulated /\ last'.op \in HardwareOnly) => channel' = channel]_vars

(* C5: after any sequence of drawing calls and pushes the buffer holds     *)
(* exactly 3 * side * side bytes, each in [0, 255]; right after a fill     *)
(* every pixel is the clamped fill color.                                  *)
C5_BufferShape ==
  /\ Len(buffer) = 3 * size * size
  /\ buffer \in Seq(0..255)
  /\ last.op \in {"fill", "clear"}
       => \A i \in 1..Len(buffer) : buffer[i] = Stored(last.rgb[((i - 1) % 3) + 1])

\* A fill with out-of-range components, after an earlier call.
C5_Witness ==
  /\ last.op = "fill" /\ last.rgb = TRICKY /\ calls > 1
  /\ SubSeq(buffer, Len(buffer) - 2, Len(buffer)) = <<0, 255, 128>>

(* C6: draw_pixel off the display and draw_pixel_at_index outside          *)
(* [0, side * side - 1] leave every byte of the buffer as it was.          *)
C6_OutOfRangeIsNoOp ==
  [][(\/ last'.op = "draw_pixel" /\ ~OnDisplay(last'.xy)
      \/ last'.op = "draw_pixel_at_index"
           /\ last'.index \notin 0..(size * size - 1))
       => buffer' = buffer]_vars

\* An x past the right edge, on a buffer that an earlier call has drawn on.
C6_Witness ==
  /\ last.op = "draw_pixel" /\ last.xy[1] >= size /\ last.xy[2] \in 0..(size - 1)
  /\ buffer # fill(BLACK)

(* C7: a zero-length line at an in-range point p writes exactly the pixel  *)
(* p, in color c.                                                          *)
C7_ZeroLengthLineWritesItsPoint ==
  [][(last'.op = "draw_line" /\ last'.start_xy = last'.stop_xy
        /\ OnDisplay(last'.start_xy))
       => buffer' = WithPixel(buffer, last'.start_xy, last'.rgb)]_vars

(* C8: an axis-aligned line inside the display writes exactly the pixels   *)
(* between its endpoints, both included.                                   *)
Between(a, b) == IF a <= b THEN a..b ELSE b..a

Covered(start_xy, stop_xy) ==
  {<<x, y>> : x \in Between(start_xy[1], stop_xy[1]),
              y \in Between(start_xy[2], stop_xy[2])}

C8_LineCoversBothEndpoints ==
  [][(last'.op = "draw_line" /\ OnDisplay(last'.start_xy) /\ OnDisplay(last'.stop_xy)
        /\ last'.start_xy # last'.stop_xy
        /\ (last'.start_xy[1] = last'.stop_xy[1] \/ last'.start_xy[2] = last'.stop_xy[2]))
       => buffer' = WithPixels(buffer, Covered(last'.start_xy, last'.stop_xy), last'.rgb)]_vars

(* C9: draw_pixel at an in-range (x, y) overwrites exactly the 3 bytes at  *)
(* (x + y * side) * 3 with the clamped color, and gives the buffer that    *)
(* draw_pixel_at_index(x + y * side, color) gives from the same state.     *)
C9_PixelWrite ==
  [][(last'.op = "draw_pixel" /\ OnDisplay(last'.xy))
       => /\ buffer' = WithPixel(buffer, last'.xy, last'.rgb)
          /\ buffer' = draw_pixel_at_index(buffer, last'.xy[1] + last'.xy[2] * size,
                                           last'.rgb)]_vars

\* (-5, 300, 128) has been stored at (1, 2) as (0, 255, 128).
C9_Witness ==
  /\ last.op = "draw_pixel" /\ last.xy = <<1, 2>> /\ last.rgb = TRICKY
  /\ SubSeq(buffer, (1 + 2 * size) * 3 + 1, (1 + 2 * size) * 3 + 3) = <<0, 255, 128>>

(* C10: every remote reset restarts the local counter at 1: after          *)
(* __init__ has reset, the counter is 1, so with auto refresh it never     *)
(* exceeds the threshold after __init__, and the first push after such a   *)
(* reset issues no second one.                                             *)
ResetAtInit == Len(channel) >= 2 /\ IsReset(channel[2])

C10_ResetRestartsAtOne ==
  /\ (last.op = "__init__" /\ ResetAtInit) => counter = 1
  /\ (last.op = "__init__" /\ Auto) => counter <= refresh_counter_limit
  /\ (ResetAtInit /\ buffers_send = 1) => Resets(channel) = 1

====
